---- MODULE Spec2Model ----
(***************************************************************************)
(* eemail: the SMTP front end.  One listener (components/smtp/src/lib.rs,  *)
(* listen) accepts a connection, runs the session loop                     *)
(* (lib/protocols/smtp/server/src/lib.rs, handle_smtp) on it, and delivers *)
(* the returned Mail into the mailbox tree.                                *)
(*                                                                         *)
(* Strings are sequences of one-character strings, so that trim_end,       *)
(* split_whitespace, strip_prefix, strip_suffix, replace and the base64    *)
(* decoder are computed the way the code computes them.  Bytes are         *)
(* numbers 0..255.                                                         *)
(***************************************************************************)
EXTENDS Integers, Sequences, FiniteSets, TLC

\* ------------------------------------------------------------------ bounds

\* Recipients a client names on one connection.
MaxRcpt == 2
\* Body lines a client sends on one connection.
MaxBody == 2
\* Connections that arrive at the port while the listener is followed through
\* several of them.
MaxConn == 2
\* Aliases of an account, and accounts of a configuration, where the
\* configurator is followed on its own.
MaxAliases == 2
MaxAccounts == 2

\* ----------------------------------------------------------------- strings

CR == "\r"
LF == "\n"
TAB == "\t"
SP == " "

\* char::is_whitespace, on the characters a line of the model can hold.
IsWhitespace(c) == c \in {SP, TAB, CR, LF}

\* str::trim_end
RECURSIVE trim_end(_)
trim_end(s) ==
    IF s = <<>> THEN <<>>
    ELSE IF IsWhitespace(s[Len(s)]) THEN trim_end(SubSeq(s, 1, Len(s) - 1))
    ELSE s

\* str::split_whitespace: the maximal runs of non-whitespace, in order.
RECURSIVE SplitFrom(_, _, _)
SplitFrom(s, cur, acc) ==
    IF s = <<>> THEN (IF cur = <<>> THEN acc ELSE Append(acc, cur))
    ELSE IF IsWhitespace(Head(s))
         THEN SplitFrom(Tail(s), <<>>, IF cur = <<>> THEN acc ELSE Append(acc, cur))
         ELSE SplitFrom(Tail(s), Append(cur, Head(s)), acc)

split_whitespace(s) == SplitFrom(s, <<>>, <<>>)

StartsWith(s, p) == Len(s) >= Len(p) /\ SubSeq(s, 1, Len(p)) = p

EndsWith(s, p) == Len(s) >= Len(p) /\ SubSeq(s, Len(s) - Len(p) + 1, Len(s)) = p

\* str::strip_prefix(p).unwrap_or_else(|| d)
strip_prefix_or(s, p, d) ==
    IF StartsWith(s, p) THEN SubSeq(s, Len(p) + 1, Len(s)) ELSE d

\* str::strip_suffix(p).unwrap_or_else(|| d)
strip_suffix_or(s, p, d) ==
    IF EndsWith(s, p) THEN SubSeq(s, 1, Len(s) - Len(p)) ELSE d

\* str::replace("\r\n", "\n")
RECURSIVE replace_crlf(_)
replace_crlf(s) ==
    IF s = <<>> THEN <<>>
    ELSE IF Len(s) >= 2 /\ s[1] = CR /\ s[2] = LF
         THEN <<LF>> \o replace_crlf(SubSeq(s, 3, Len(s)))
         ELSE <<Head(s)>> \o replace_crlf(Tail(s))

\* ------------------------------------------------------------------ base64

B64Alphabet ==
    <<"A","B","C","D","E","F","G","H","I","J","K","L","M","N","O","P","Q","R",
      "S","T","U","V","W","X","Y","Z","a","b","c","d","e","f","g","h","i","j",
      "k","l","m","n","o","p","q","r","s","t","u","v","w","x","y","z","0","1",
      "2","3","4","5","6","7","8","9","+","/">>

IsB64(c) == \E i \in 1..Len(B64Alphabet) : B64Alphabet[i] = c

\* The 6-bit value of an alphabet character.
B64Val(c) == (CHOOSE i \in 1..Len(B64Alphabet) : B64Alphabet[i] = c) - 1

\* One quantum of four characters: <<ok, bytes>>.  Padding is canonical
\* ("xx==" or "xxx="), and the bits the padding cuts off must be zero.
B64Quantum(q, isLast) ==
    LET pad == IF q[4] = "=" THEN (IF q[3] = "=" THEN 2 ELSE 1) ELSE 0
        sym == SubSeq(q, 1, 4 - pad)
    IN  IF (pad > 0 /\ ~isLast) \/ (\E i \in 1..Len(sym) : ~IsB64(sym[i]))
        THEN <<FALSE, <<>>>>
        ELSE LET v(i) == IF i <= Len(sym) THEN B64Val(sym[i]) ELSE 0
                 n == v(1) * 262144 + v(2) * 4096 + v(3) * 64 + v(4)
                 b1 == n \div 65536
                 b2 == (n \div 256) % 256
                 b3 == n % 256
             IN  CASE pad = 0 -> <<TRUE, <<b1, b2, b3>>>>
                   [] pad = 1 -> <<b3 = 0, <<b1, b2>>>>
                   [] pad = 2 -> <<b2 = 0 /\ b3 = 0, <<b1>>>>

\* BASE64_STANDARD.decode: <<ok, bytes>>; ok is FALSE for Err(DecodeError).
RECURSIVE B64Decode(_)
B64Decode(s) ==
    IF s = <<>> THEN <<TRUE, <<>>>>
    ELSE IF Len(s) < 4 THEN <<FALSE, <<>>>>
    ELSE LET q == B64Quantum(SubSeq(s, 1, 4), Len(s) = 4)
             r == B64Decode(SubSeq(s, 5, Len(s)))
         IN  IF q[1] /\ r[1] THEN <<TRUE, q[2] \o r[2]>> ELSE <<FALSE, <<>>>>

\* The payloads the model's clients send, decoded once.
Payloads ==
    { <<"A","H","V","A","Z","A","B","w","d","w","=","=">>,
      <<"A","G","h","A","Z","A","B","w","d","w","=","=">>,
      <<"A","H","p","A","Z","A","B","w","d","w","=","=">>,
      <<"A","H","R","A","Z","A","B","w","d","w","=","=">>,
      <<"A","G","1","A","Z","A","B","w","d","w","=","=">>,
      <<"A","H","V","A","Z","A","B","u","b","w","=","=">>,
      <<"!","!","!","!">>,
      <<"d","U","B","k","A","H","B","3">>,
      <<"A","H","V","A","Z","A","B","w","d","w","A","=">>,
      <<"c","H","c","=">> }

DecodeTable == [p \in Payloads |-> B64Decode(p)]

\* BASE64_STANDARD.decode(base64)
b64_decode(s) == IF s \in Payloads THEN DecodeTable[s] ELSE B64Decode(s)

\* slice::split(|&b| b == 0): the runs between NUL bytes, empty runs kept.
RECURSIVE SplitNulFrom(_, _, _)
SplitNulFrom(bs, cur, acc) ==
    IF bs = <<>> THEN Append(acc, cur)
    ELSE IF Head(bs) = 0 THEN SplitNulFrom(Tail(bs), <<>>, Append(acc, cur))
         ELSE SplitNulFrom(Tail(bs), Append(cur, Head(bs)), acc)

split_nul(bs) == SplitNulFrom(bs, <<>>, <<>>)

Printable ==
    <<" ","!","?","#","$","%","&","'","(",")","*","+",",","-",".","/","0","1",
      "2","3","4","5","6","7","8","9",":",";","<","=",">","?","@","A","B","C",
      "D","E","F","G","H","I","J","K","L","M","N","O","P","Q","R","S","T","U",
      "V","W","X","Y","Z","[","?","]","^","_","?","a","b","c","d","e","f","g",
      "h","i","j","k","l","m","n","o","p","q","r","s","t","u","v","w","x","y",
      "z","{","|","}","~">>

\* String::from_utf8_lossy on bytes: printable ASCII maps to itself (the
\* table starts at byte 32; the double quote, backslash and backtick, which
\* no payload of the model holds, are shown as "?"), and so is every other
\* byte, as the replacement mark.
from_utf8_lossy(bs) ==
    [i \in 1..Len(bs) |->
        IF bs[i] >= 32 /\ bs[i] <= 126 THEN Printable[bs[i] - 31] ELSE "?"]

\* ----------------------------------------------------------- configuration

None == <<>>
Some(x) == <<x>>

s_AT == <<"@">>
a_ext == <<"a","@","b">>
a_primary == <<"u","@","d">>
a_alias == <<"h","@","d">>
a_nopw == <<"t","@","d">>
a_badhash == <<"m","@","d">>
a_unknown == <<"z","@","d">>
s_pw == <<"p","w">>
s_no == <<"n","o">>

\* The prefix of a yescrypt hash in PHC format.
s_PHC == <<"$","y","$">>

\* The stored hash of a password: the real one is a salted yescrypt digest;
\* the model keeps what decides the two calls made on it, that it parses as
\* PHC and which password verifies against it.
HashOf(pw) == s_PHC \o pw

\* ServiceConfig.accounts: an account with an alias and a password, one with
\* neither, and one whose stored hash is not a PHC string.
Accounts ==
    << [user |-> <<"u">>, domain |-> <<"d">>, aliases |-> Some(<<a_alias>>),
        hashed_password |-> Some(HashOf(s_pw))],
       [user |-> <<"t">>, domain |-> <<"d">>, aliases |-> None,
        hashed_password |-> None],
       [user |-> <<"m">>, domain |-> <<"d">>, aliases |-> None,
        hashed_password |-> Some(s_pw)] >>

\* The two listeners' port configurations.
TransferPort ==
    [auth_enabled |-> FALSE, filtering_enabled |-> TRUE, implicit_tls |-> FALSE,
     port |-> 2525]

SubmissionPort ==
    [auth_enabled |-> TRUE, filtering_enabled |-> FALSE, implicit_tls |-> FALSE,
     port |-> 5870]

\* ---------------------------------------------------------------- resolver

Contains(seq, x) == \E i \in 1..Len(seq) : seq[i] = x

get_primary_address(account) == account.user \o s_AT \o account.domain

\* The primary address put first.
MutAllAddressesPrimaryFirst(account) ==
    LET aliases == IF account.aliases = None THEN <<>> ELSE account.aliases[1]
        primary == account.user \o s_AT \o account.domain
    IN  <<primary>> \o aliases

get_all_addresses(account) ==
    LET aliases == IF account.aliases = None THEN <<>> ELSE account.aliases[1]
        primary == account.user \o s_AT \o account.domain
    IN  Append(aliases, primary)

\* Option<Account>: the first account whose address set contains addr.
get_user_from_alias(accounts, addr) ==
    LET hits == {i \in 1..Len(accounts) : Contains(get_all_addresses(accounts[i]), addr)}
    IN  IF hits = {} THEN None
        ELSE Some(accounts[CHOOSE i \in hits : \A j \in hits : i <= j])

\* PasswordHash::new(src).is_ok()
PasswordHashParses(src) == StartsWith(src, s_PHC)

\* Yescrypt.verify_password(password, parsed_hash).is_ok()
verify_password(password, src) == src = HashOf(password)

\* ----------------------------------------------------------------- replies

\* One reply line: the code, the separator after it ("-" before a further
\* line, " " on the last) and the text; CRLF ends it on the wire.
message_formatter(code, text) == [code |-> code, sep |-> " ", text |-> text]

\* A reply of one line.
Reply(code, text) == <<message_formatter(code, text)>>

R220Ready == Reply("220", "Server Ready")
R220Tls == Reply("220", "Ready to start TLS")
R221 == Reply("221", "Bye")
R235 == Reply("235", "Authentication Successfull")
R250Ok == Reply("250", "OK")
R250Accepted == Reply("250", "Message accepted")
R354 == Reply("354", "End data with <CR><LF>.<CR><LF>")
R454 == Reply("454", "TLS Already Active")
R501 == Reply("501", "Syntax error in parameters")
R502 == Reply("502", "Command not implemented")
R503Auth == Reply("503", "Authentication already completed or already in mail")
R503Seq == Reply("503", "Bad Sequence of commands")
R504 == Reply("504", "Authentication mechanism not supported")
R535 == Reply("535", "Authentication failed")

\* -------------------------------------------------------------------- Mail

\* Mail::default()
DefaultMail ==
    [id |-> None, from |-> <<>>, to |-> <<>>, data |-> <<>>,
     sending_data |-> FALSE, in_mail |-> FALSE, has_authed |-> FALSE,
     has_tlsd |-> FALSE]

\* What a command handler did: the Mail it leaves, the replies it wrote in
\* order, and how it ended: "ok" (Ok(())), "err" (an Err carried out of the
\* session by ?), or "panic".
Effect(m, out, res) == [mail |-> m, out |-> out, res |-> res]

\* ---------------------------------------------------------------- handlers

s_EHLO == <<"E","H","L","O">>
s_AUTH == <<"A","U","T","H">>
s_MAIL == <<"M","A","I","L">>
s_RCPT == <<"R","C","P","T">>
s_DATA == <<"D","A","T","A">>
s_QUIT == <<"Q","U","I","T">>
s_STARTTLS == <<"S","T","A","R","T","T","L","S">>
s_PLAIN == <<"P","L","A","I","N">>
s_FROM == <<"F","R","O","M",":">>
s_TO == <<"T","O",":">>
s_LT == <<"<">>
s_GT == <<">">>
s_DOT == <<".">>

Ext(text) == [code |-> "250", sep |-> "-", text |-> text]

\* ehlo::handle offering STARTTLS whatever has_tlsd is.
MutEhloKeepsStarttls(m, cfg) ==
    LET base == <<Ext("Localhost"), Ext("PIPELINING"), Ext("Size 10485760"),
                  Ext("STARTTLS")>>
        withAuth == IF cfg.auth_enabled /\ m.has_tlsd
                    THEN Append(base, Ext("AUTH PLAIN")) ELSE base
    IN  Effect(m, <<[withAuth EXCEPT ![Len(withAuth)].sep = " "]>>, "ok")

\* ehlo::handle offering AUTH on the port's flag alone.
MutEhloAuthBeforeTls(m, cfg) ==
    LET base == <<Ext("Localhost"), Ext("PIPELINING"), Ext("Size 10485760")>>
        withTls == IF ~m.has_tlsd THEN Append(base, Ext("STARTTLS")) ELSE base
        withAuth == IF cfg.auth_enabled
                    THEN Append(withTls, Ext("AUTH PLAIN")) ELSE withTls
    IN  Effect(m, <<[withAuth EXCEPT ![Len(withAuth)].sep = " "]>>, "ok")

\* commands::ehlo::handle
ehlo_handle(m, cfg) ==
    LET base == <<Ext("Localhost"), Ext("PIPELINING"), Ext("Size 10485760")>>
        withTls == IF ~m.has_tlsd THEN Append(base, Ext("STARTTLS")) ELSE base
        withAuth == IF cfg.auth_enabled /\ m.has_tlsd
                    THEN Append(withTls, Ext("AUTH PLAIN")) ELSE withTls
        \* last.replacen("250-", "250 ", 1)
        extension_strs == [withAuth EXCEPT ![Len(withAuth)].sep = " "]
    IN  Effect(m, <<extension_strs>>, "ok")

\* The lookup telling an unknown user from a wrong password.
MutAuthCheckNoSuchUser(m, accounts, username, password) ==
    LET user == get_user_from_alias(accounts, username)
    IN  IF user = None THEN <<Reply("550", "No such user")>>
        ELSE IF user[1].hashed_password # None
                /\ PasswordHashParses(user[1].hashed_password[1])
                /\ verify_password(password, user[1].hashed_password[1])
             THEN <<R235>>
             ELSE <<R535>>

\* commands::auth::handle, from the lookup on: username and password are
\* parts[1] and parts[2] of the decoded payload.
auth_check(m, accounts, username, password) ==
    LET user == get_user_from_alias(accounts, username)
    IN  IF user # None
        THEN IF user[1].hashed_password # None
             THEN IF PasswordHashParses(user[1].hashed_password[1])
                  THEN IF verify_password(password, user[1].hashed_password[1])
                       THEN <<R235>>
                       ELSE <<R535>>
                  ELSE <<R535>>
             ELSE <<R535>>
        ELSE <<R535>>

\* commands::auth::handle refusing AUTH on a session without TLS.
MutAuthHandleRequiresTls(m, accounts, cmd) ==
    IF m.in_mail \/ m.has_authed \/ ~m.has_tlsd THEN Effect(m, <<R503Auth>>, "ok")
    ELSE IF Len(cmd) < 2 THEN Effect(m, <<R501>>, "ok")
    ELSE IF cmd[2] # s_PLAIN THEN Effect(m, <<R504>>, "ok")
    ELSE IF Len(cmd) < 3 THEN Effect(m, <<R535>>, "ok")
    ELSE LET decoded == b64_decode(cmd[3])
             parts == split_nul(decoded[2])
             warned == IF Len(parts) # 3 THEN <<R535>> ELSE <<>>
         IN  IF ~decoded[1] THEN Effect(m, <<>>, "err")
             ELSE IF Len(parts) < 3 THEN Effect(m, warned, "panic")
             ELSE Effect(m,
                         warned \o auth_check(m, accounts,
                                              from_utf8_lossy(parts[2]),
                                              from_utf8_lossy(parts[3])),
                         "ok")

\* commands::auth::handle
auth_handle(m, accounts, cmd) ==
    IF m.in_mail \/ m.has_authed THEN Effect(m, <<R503Auth>>, "ok")
    ELSE IF Len(cmd) < 2 THEN Effect(m, <<R501>>, "ok")
    ELSE IF cmd[2] # s_PLAIN THEN Effect(m, <<R504>>, "ok")
    ELSE IF Len(cmd) < 3 THEN Effect(m, <<R535>>, "ok")
    ELSE LET decoded == b64_decode(cmd[3])
             parts == split_nul(decoded[2])
             \* the reply to a payload that has not three parts; no return
             \* follows it
             warned == IF Len(parts) # 3 THEN <<R535>> ELSE <<>>
         IN  IF ~decoded[1] THEN Effect(m, <<>>, "err")
             \* parts[1], parts[2]: indexing past the end panics
             ELSE IF Len(parts) < 3 THEN Effect(m, warned, "panic")
             ELSE Effect(m,
                         warned \o auth_check(m, accounts,
                                              from_utf8_lossy(parts[2]),
                                              from_utf8_lossy(parts[3])),
                         "ok")

\* The address of a MAIL or RCPT argument: the header stripped, then "<" and
\* ">"; a missing ">" falls back to the string the "<" was still on.
strip_address(second, header) ==
    LET second1 == strip_prefix_or(second, header, second)
    IN  strip_suffix_or(strip_prefix_or(second1, s_LT, second1), s_GT, second1)

\* commands::mail::handle
mail_handle(m, cmd) ==
    LET m1 == [m EXCEPT !.in_mail = TRUE]
    IN  IF Len(cmd) >= 2
        THEN Effect([m1 EXCEPT !.from = strip_address(cmd[2], s_FROM)], <<R250Ok>>, "ok")
        ELSE Effect(m1, <<>>, "ok")

\* commands::rcpt::handle
rcpt_handle(m, cmd) ==
    IF Len(cmd) >= 2
    THEN Effect([m EXCEPT !.to = Append(m.to, strip_address(cmd[2], s_TO))], <<R250Ok>>, "ok")
    ELSE Effect(m, <<>>, "ok")

\* DATA returning after its 503.
MutDataHandleRejects(m) ==
    IF m.from = <<>> \/ m.to = <<>>
    THEN Effect(m, <<R503Seq>>, "ok")
    ELSE Effect([m EXCEPT !.sending_data = TRUE], <<R354>>, "ok")

\* commands::data::handle
data_handle(m) ==
    Effect([m EXCEPT !.sending_data = TRUE],
           (IF m.from = <<>> \/ m.to = <<>> THEN <<R503Seq>> ELSE <<>>) \o <<R354>>,
           "ok")

\* commands::quit::handle: the reply; the shutdown of the write half follows
\* it, and the handler returns Ok(()) to the loop.
quit_handle(m) == Effect(m, <<R221>>, "ok")

\* STARTTLS with TLS active answered as the first one was.
MutStarttlsActiveAgain(m) == Effect(m, <<R220Tls>>, "ok")

\* commands::starttls::handle with TLS active.
starttls_active(m) == Effect(m, <<R454>>, "ok")

\* commands::starttls::handle leaving has_tlsd as it found it.
MutStarttlsBeginKeepsFlag(m) == Effect(m, <<R220Tls>>, "ok")

\* commands::starttls::handle starting the session anew with the upgrade.
MutStarttlsBeginResets(m) == Effect([DefaultMail EXCEPT !.has_tlsd = TRUE], <<R220Tls>>, "ok")

\* commands::starttls::handle up to the handshake.
starttls_begin(m) == Effect([m EXCEPT !.has_tlsd = TRUE], <<R220Tls>>, "ok")

\* The `_` arm of the verb match taking the line for a reset.
MutUnknownHandleResets(m) ==
    Effect([m EXCEPT !.in_mail = FALSE, !.from = <<>>, !.to = <<>>, !.data = <<>>],
           <<R250Ok>>, "ok")

\* The `_` arm of the verb match.
unknown_handle(m) == Effect(m, <<R502>>, "ok")

\* The data-mode branch ending the mail transaction with the body.
MutDataLineEndsTransaction(m, line) ==
    IF trim_end(line) = s_DOT
    THEN Effect([m EXCEPT !.sending_data = FALSE, !.in_mail = FALSE],
                <<R250Accepted>>, "ok")
    ELSE Effect([m EXCEPT !.data = m.data \o replace_crlf(line)], <<>>, "ok")

\* The data-mode branch starting a new message when the body ends.
MutDataLineResets(m, line) ==
    IF trim_end(line) = s_DOT
    THEN Effect([m EXCEPT !.sending_data = FALSE, !.in_mail = FALSE,
                          !.from = <<>>, !.to = <<>>, !.data = <<>>],
                <<R250Accepted>>, "ok")
    ELSE Effect([m EXCEPT !.data = m.data \o replace_crlf(line)], <<>>, "ok")

\* The data-mode branch giving the message its id when the body ends.
MutDataLineAssignsId(m, line) ==
    IF trim_end(line) = s_DOT
    THEN Effect([m EXCEPT !.sending_data = FALSE, !.id = Some(<<0, 0>>)],
                <<R250Accepted>>, "ok")
    ELSE Effect([m EXCEPT !.data = m.data \o replace_crlf(line)], <<>>, "ok")

\* The data-mode branch of the loop.
data_line(m, line) ==
    IF trim_end(line) = s_DOT
    THEN Effect([m EXCEPT !.sending_data = FALSE], <<R250Accepted>>, "ok")
    ELSE Effect([m EXCEPT !.data = m.data \o replace_crlf(line)], <<>>, "ok")

\* ------------------------------------------------------------ client lines

CRLF == <<CR, LF>>

\* "VERB arg\r\n"
Line1(verb, arg) == verb \o <<SP>> \o arg \o CRLF
\* "AUTH PLAIN payload\r\n"
AuthPlain(payload) == s_AUTH \o <<SP>> \o s_PLAIN \o <<SP>> \o payload \o CRLF

L_EHLO == Line1(s_EHLO, <<"x">>)
L_STARTTLS == s_STARTTLS \o CRLF
L_QUIT == s_QUIT \o CRLF
L_DATA == s_DATA \o CRLF
L_RSET == <<"R","S","E","T">> \o CRLF
L_ehlo == Line1(<<"e","h","l","o">>, <<"x">>)
L_BLANK == CRLF
L_AUTH == s_AUTH \o CRLF
L_AUTH_LOGIN == Line1(s_AUTH, <<"L","O","G","I","N">>)
L_AUTH_PLAIN == Line1(s_AUTH, s_PLAIN)
\* base64 of NUL u@d NUL pw: the account's primary address and password
L_AUTH_OK == AuthPlain(<<"A","H","V","A","Z","A","B","w","d","w","=","=">>)
\* NUL h@d NUL pw: the account's alias
L_AUTH_ALIAS == AuthPlain(<<"A","G","h","A","Z","A","B","w","d","w","=","=">>)
\* NUL z@d NUL pw: no such account
L_AUTH_UNKNOWN == AuthPlain(<<"A","H","p","A","Z","A","B","w","d","w","=","=">>)
\* NUL t@d NUL pw: an account without hashed_password
L_AUTH_NOPW == AuthPlain(<<"A","H","R","A","Z","A","B","w","d","w","=","=">>)
\* NUL m@d NUL pw: an account whose stored hash does not parse
L_AUTH_BADHASH == AuthPlain(<<"A","G","1","A","Z","A","B","w","d","w","=","=">>)
\* NUL u@d NUL no: the wrong password
L_AUTH_WRONG == AuthPlain(<<"A","H","V","A","Z","A","B","u","b","w","=","=">>)
\* not base64
L_AUTH_NOTB64 == AuthPlain(<<"!","!","!","!">>)
\* u@d NUL pw: two fields
L_AUTH_TWO == AuthPlain(<<"d","U","B","k","A","H","B","3">>)
\* NUL u@d NUL pw NUL: four fields
L_AUTH_FOUR == AuthPlain(<<"A","H","V","A","Z","A","B","w","d","w","A","=">>)
\* pw: one field
L_AUTH_ONE == AuthPlain(<<"c","H","c","=">>)
L_MAIL_BOTH == Line1(s_MAIL, s_FROM \o s_LT \o a_ext \o s_GT)
L_MAIL_BARE == Line1(s_MAIL, s_FROM \o a_ext)
L_MAIL_OPEN == Line1(s_MAIL, s_FROM \o s_LT \o a_ext)
L_MAIL_CLOSE == Line1(s_MAIL, s_FROM \o a_ext \o s_GT)
L_MAIL_LOCAL == Line1(s_MAIL, s_FROM \o s_LT \o a_primary \o s_GT)
L_MAIL_ALIAS == Line1(s_MAIL, s_FROM \o s_LT \o a_alias \o s_GT)
L_MAIL_NOARG == s_MAIL \o CRLF
L_RCPT_PRIMARY == Line1(s_RCPT, s_TO \o s_LT \o a_primary \o s_GT)
L_RCPT_ALIAS == Line1(s_RCPT, s_TO \o s_LT \o a_alias \o s_GT)
L_RCPT_EXT == Line1(s_RCPT, s_TO \o s_LT \o a_ext \o s_GT)
L_RCPT_NOARG == s_RCPT \o CRLF
L_RCPT_OPEN == Line1(s_RCPT, s_TO \o s_LT \o a_primary)
L_HI == <<"H","i">> \o CRLF
L_HI_LF == <<"H","i",LF>>
L_DOT == s_DOT \o CRLF
L_DOTDOT == <<".",".","x">> \o CRLF
L_DOT_SP == <<".",SP>> \o CRLF

AuthLines ==
    {L_AUTH, L_AUTH_LOGIN, L_AUTH_PLAIN, L_AUTH_OK, L_AUTH_ALIAS, L_AUTH_UNKNOWN,
     L_AUTH_NOPW, L_AUTH_BADHASH, L_AUTH_WRONG, L_AUTH_NOTB64, L_AUTH_TWO,
     L_AUTH_FOUR, L_AUTH_ONE}

MailLines ==
    {L_MAIL_BOTH, L_MAIL_BARE, L_MAIL_OPEN, L_MAIL_CLOSE, L_MAIL_LOCAL,
     L_MAIL_ALIAS, L_MAIL_NOARG}

RcptLines == {L_RCPT_PRIMARY, L_RCPT_ALIAS, L_RCPT_EXT, L_RCPT_NOARG, L_RCPT_OPEN}

OtherLines == {L_EHLO, L_STARTTLS, L_QUIT, L_DATA, L_RSET, L_ehlo, L_BLANK}

BodyLines == {L_HI, L_HI_LF, L_DOTDOT, L_DOT_SP, L_QUIT, L_DOT}

\* Every line of the model.
AllLines == AuthLines \cup MailLines \cup RcptLines \cup OtherLines \cup BodyLines

\* What one client may put on the wire.  A client keeps to one vocabulary:
\* the authentication dialogue, the address forms, the body framing, the
\* sender's copy, or the delivery to local and foreign recipients.
AuthProfile ==
    AuthLines \cup {L_EHLO, L_STARTTLS, L_QUIT, L_MAIL_BOTH, L_MAIL_NOARG, L_RSET,
                    L_ehlo, L_BLANK, L_DATA, L_HI, L_DOT}

AddressProfile ==
    {L_MAIL_BOTH, L_MAIL_BARE, L_MAIL_OPEN, L_MAIL_CLOSE, L_MAIL_NOARG,
     L_RCPT_PRIMARY, L_RCPT_EXT, L_RCPT_NOARG, L_RCPT_OPEN, L_DATA, L_HI, L_DOT,
     L_QUIT}

BodyProfile == BodyLines \cup {L_MAIL_BOTH, L_RCPT_PRIMARY, L_DATA}

SenderProfile ==
    {L_MAIL_BOTH, L_MAIL_LOCAL, L_MAIL_ALIAS, L_RCPT_PRIMARY, L_DATA, L_HI, L_DOT,
     L_QUIT, L_AUTH_OK, L_STARTTLS}

RecipientProfile ==
    {L_MAIL_BOTH, L_RCPT_PRIMARY, L_RCPT_ALIAS, L_RCPT_EXT, L_DATA, L_HI, L_DOT,
     L_QUIT}

Profiles ==
    {AuthProfile, AddressProfile, BodyProfile, SenderProfile, RecipientProfile}

\* ---------------------------------------------------------------- delivery

\* The account listen finds for mail.from: the first whose addresses
\* contain it.
from_account(accounts, from) ==
    LET hits == {i \in 1..Len(accounts) : Contains(get_all_addresses(accounts[i]), from)}
    IN  IF hits = {} THEN None
        ELSE Some(accounts[CHOOSE i \in hits : \A j \in hits : i <= j])

\* The filter looking at primary addresses only.
MutIsLocalPrimaryOnly(accounts, recipient) ==
    \E i \in 1..Len(accounts) :
        recipient = accounts[i].user \o s_AT \o accounts[i].domain

\* Whether some account's addresses contain the recipient.
is_local(accounts, recipient) ==
    \E i \in 1..Len(accounts) : Contains(get_all_addresses(accounts[i]), recipient)

\* The filter giving up at the first recipient that is not local.
RECURSIVE MutLocalRecipientsUntilForeign(_, _)
MutLocalRecipientsUntilForeign(accounts, to) ==
    IF to = <<>> \/ ~is_local(accounts, Head(to)) THEN <<>>
    ELSE <<Head(to)>> \o MutLocalRecipientsUntilForeign(accounts, Tail(to))

\* mail.to.iter().filter(is local).cloned().collect()
RECURSIVE local_recipients(_, _)
local_recipients(accounts, to) ==
    IF to = <<>> THEN <<>>
    ELSE (IF is_local(accounts, Head(to)) THEN <<Head(to)>> ELSE <<>>)
             \o local_recipients(accounts, Tail(to))

\* fs::create_dir_all(base) then fs::write(base/id.eml, data)
WriteOps(address, folder, m) ==
    << [kind |-> "mkdir", dir |-> <<address, folder>>],
       [kind |-> "write", dir |-> <<address, folder>>, id |-> m.id[1], data |-> m.data] >>

\* The Inbox copy filed under the address the client named.
MutInboxAddressAsNamed(accounts, recipient) == recipient

\* The directory an Inbox copy for a local recipient goes to.
inbox_address(accounts, recipient) ==
    get_primary_address(get_user_from_alias(accounts, recipient)[1])

RECURSIVE InboxOps(_, _, _)
InboxOps(accounts, recipients, m) ==
    IF recipients = <<>> THEN <<>>
    ELSE WriteOps(inbox_address(accounts, Head(recipients)), "Inbox", m)
             \o InboxOps(accounts, Tail(recipients), m)

\* The Ok(mail) arm writing the Sent copy on either port.
MutDeliveryOpsAnyPort(accounts, cfg, m) ==
    LET sender == from_account(accounts, m.from)
    IN  (IF sender # None
         THEN WriteOps(get_primary_address(sender[1]), "Sent", m)
         ELSE <<>>)
        \o InboxOps(accounts, local_recipients(accounts, m.to), m)

\* The Ok(mail) arm of listen: the filesystem operations, in order.
delivery_ops(accounts, cfg, m) ==
    LET sender == from_account(accounts, m.from)
    IN  (IF sender # None /\ cfg.auth_enabled
         THEN WriteOps(get_primary_address(sender[1]), "Sent", m)
         ELSE <<>>)
        \o InboxOps(accounts, local_recipients(accounts, m.to), m)

\* The tree after the operations ops[1..k].
RECURSIVE ApplyOps(_, _, _)
ApplyOps(tree, ops, k) ==
    IF k = 0 THEN tree
    ELSE LET t == ApplyOps(tree, ops, k - 1)
             op == ops[k]
         IN  IF op.kind = "mkdir"
             THEN [t EXCEPT !.dirs = @ \cup {op.dir}]
             ELSE [t EXCEPT !.files =
                      [q \in DOMAIN @ \cup {<<op.dir, op.id>>} |->
                          IF q = <<op.dir, op.id>> THEN op.data ELSE @[q]]]

\* ------------------------------------------------------------------- state

VARIABLES
    config,     \* the listener's SMTPPortConfiguration
    pc,         \* where listen is: "accept", "session", "deliver", or ended
    conn,       \* connections accepted so far
    client,     \* the lines the connected client may send
    mail,       \* the session's Mail
    stream,     \* the SmtpStream variant: "Plain" or "Tls"
    wshut,      \* the write half has been shut down
    last,       \* the step last taken: the line read, the Mail before it,
                \* the replies written, how it ended
    body,       \* the lines the client sent in data mode, terminators left out
    hist,       \* what the session has seen: an AUTH answered 235, a MAIL,
                \* a body ended and answered 250
    tree,       \* the mailbox tree: directories, and files with their content
    orch,       \* start_smtp: "running", or "exited" once its select returned
    peer,       \* the listener task of the other port: "running", or ended
    backlog,    \* connections made to the port and not yet accepted
    query,      \* a call of the configurator and what it returned
    piped       \* the input the reader held behind the STARTTLS line when
                \* starttls::handle took the stream out of it

vars == <<config, pc, conn, client, mail, stream, wshut, last, body, hist, tree,
          orch, peer, backlog, query, piped>>

\* No call of the configurator followed.
NoQuery == [op |-> "none"]

\* A step of the listener task: the process is up, and the step touches
\* neither the supervisor, the other listener nor the backlog.
Supervised ==
    /\ orch = "running"
    /\ UNCHANGED <<orch, peer, backlog, query>>

\* Such a step that takes no stream out of the reader.
Serving ==
    /\ Supervised
    /\ UNCHANGED piped

NoHist == [authed |-> FALSE, mailed |-> FALSE, accepted |-> FALSE]

\* A step: op and the line read; the Mail, the shutdown flag and the history
\* before it; the replies written; how it ended; and io, whether the
\* transport failed in it (a read, a write, a shutdown or the handshake).
Step(op, line, pre, out, res, io) ==
    [op |-> op, line |-> line, pre |-> pre, shut |-> wshut, hist |-> hist,
     out |-> out, res |-> res, io |-> io]

\* The history after a step that wrote out.
Seen(op, out) ==
    [authed |-> hist.authed \/ (op = "AUTH" /\ \E i \in 1..Len(out) : out[i] = R235),
     mailed |-> hist.mailed \/ op = "MAIL",
     accepted |-> hist.accepted \/ (op = "body" /\ out = <<R250Accepted>>)]

Init ==
    /\ config \in {TransferPort, SubmissionPort}
    /\ pc = "accept"
    /\ conn = 0
    /\ client = {}
    /\ mail = DefaultMail
    /\ stream = "Plain"
    /\ wshut = FALSE
    /\ body = <<>>
    /\ hist = NoHist
    /\ last = [op |-> "init", line |-> <<>>, pre |-> DefaultMail, shut |-> FALSE,
               hist |-> NoHist, out |-> <<>>, res |-> "ok", io |-> FALSE]
    /\ tree = [dirs |-> {}, files |-> <<>>]
    /\ orch = "running"
    /\ peer = "running"
    /\ backlog = 0
    /\ query = NoQuery
    /\ piped = <<>>

\* listener.accept() and the head of handle_smtp: the greeting is written,
\* and a failed write ends the session before its loop starts.  The model
\* follows the listener through one connection: handle_smtp is given the
\* socket, the port configuration, the acceptor and the service
\* configuration, and keeps nothing from one call to the next.
Accept ==
    /\ pc = "accept"
    /\ conn = 0
    /\ conn' = conn + 1
    /\ mail' = DefaultMail
    /\ stream' = "Plain"
    /\ wshut' = FALSE
    /\ body' = <<>>
    /\ hist' = NoHist
    /\ \E prof \in Profiles : client' = prof
    /\ \E wok \in BOOLEAN :
          /\ pc' = IF wok THEN "session" ELSE "accept"
          /\ last' = Step("accept", <<>>, DefaultMail,
                          IF wok THEN <<R220Ready>> ELSE <<>>,
                          IF wok THEN "ok" ELSE "err", ~wok)
    /\ UNCHANGED <<config, tree>>
    /\ Serving

Verbs == {s_EHLO, s_AUTH, s_MAIL, s_RCPT, s_DATA, s_QUIT, s_STARTTLS}

\* The tokens of a line read in command mode, tabulated over the lines a
\* client can send.
TokenTable == [l \in AllLines |-> split_whitespace(trim_end(l))]

Tokens(line) == TokenTable[line]

\* The lines whose first token is the verb.
LinesOf(verb) == {l \in AllLines : Tokens(l) # <<>> /\ Tokens(l)[1] = verb}

EhloLines == LinesOf(s_EHLO)
AuthVerbLines == LinesOf(s_AUTH)
MailVerbLines == LinesOf(s_MAIL)
RcptVerbLines == LinesOf(s_RCPT)
DataVerbLines == LinesOf(s_DATA)
QuitVerbLines == LinesOf(s_QUIT)
StarttlsLines == LinesOf(s_STARTTLS)
BlankLines == {l \in AllLines : Tokens(l) = <<>>}
UnknownLines ==
    {l \in AllLines : Tokens(l) # <<>> /\ Tokens(l)[1] \notin Verbs}

\* Whether the client may send the line now: the bounds on recipients and
\* body lines are the client's.
Sendable(l) ==
    /\ l \in client
    /\ IF mail.sending_data
       THEN l \in BodyLines /\ (l = L_DOT \/ Len(body) < MaxBody)
       ELSE /\ l \notin (BodyLines \ {L_QUIT})
            /\ (l \in RcptVerbLines /\ Len(Tokens(l)) >= 2 => Len(mail.to) < MaxRcpt)

\* One turn of the loop of handle_smtp on a handler's effect.  A write fails
\* when the write half is shut down, and may fail at any time (the peer is
\* gone): the first wcap writes of the handler succeed, the next returns the
\* Err that ends the session.  listen logs an Err and accepts again; a panic
\* unwinds through listen, which awaits the session in its own task.
Turn(op, line, eff) ==
    \E wcap \in (IF wshut THEN {0} ELSE 0..Len(eff.out)) :
        LET cut == Len(eff.out) > wcap
            res == IF cut THEN "err" ELSE eff.res
        IN  /\ mail' = eff.mail
            /\ last' = Step(op, line, mail, SubSeq(eff.out, 1, wcap), res, cut)
            /\ hist' = Seen(op, SubSeq(eff.out, 1, wcap))
            /\ pc' = CASE res = "ok" -> "session"
                       [] res = "err" -> "accept"
                       [] res = "panic" -> "panicked"

\* A line read in command mode.
Reads(line) ==
    /\ pc = "session"
    /\ ~mail.sending_data
    /\ Sendable(line)

Ehlo ==
    \E line \in EhloLines :
        /\ Reads(line)
        /\ Turn("EHLO", line, ehlo_handle(mail, config))
        /\ UNCHANGED <<config, conn, client, stream, wshut, body, tree>>
        /\ Serving

Auth ==
    \E line \in AuthVerbLines :
        /\ Reads(line)
        /\ Turn("AUTH", line, auth_handle(mail, Accounts, Tokens(line)))
        /\ UNCHANGED <<config, conn, client, stream, wshut, body, tree>>
        /\ Serving

MailFrom ==
    \E line \in MailVerbLines :
        /\ Reads(line)
        /\ Turn("MAIL", line, mail_handle(mail, Tokens(line)))
        /\ UNCHANGED <<config, conn, client, stream, wshut, body, tree>>
        /\ Serving

RcptTo ==
    \E line \in RcptVerbLines :
        /\ Reads(line)
        /\ Turn("RCPT", line, rcpt_handle(mail, Tokens(line)))
        /\ UNCHANGED <<config, conn, client, stream, wshut, body, tree>>
        /\ Serving

Data ==
    \E line \in DataVerbLines :
        /\ Reads(line)
        /\ Turn("DATA", line, data_handle(mail))
        /\ UNCHANGED <<config, conn, client, stream, wshut, body, tree>>
        /\ Serving

\* Where the loop goes after the QUIT arm: quit::handle returns Ok(()) and
\* the arm holds no break, so the loop reads the next line.
after_quit == "session"

\* QUIT: the reply, then shutdown() of the write half; either may fail.
Quit ==
    \E line \in QuitVerbLines :
        /\ Reads(line)
        /\ LET eff == quit_handle(mail)
           IN  /\ mail' = eff.mail
               /\ \E end \in (IF wshut THEN {"write fails"}
                              ELSE {"done", "write fails", "shutdown fails"}) :
                     /\ last' = Step("QUIT", line, mail,
                                     IF end = "write fails" THEN <<>> ELSE eff.out,
                                     IF end = "done" THEN "ok" ELSE "err",
                                     end # "done")
                     /\ wshut' = (wshut \/ end = "done")
                     /\ pc' = IF end = "done" THEN after_quit ELSE "accept"
        /\ UNCHANGED <<config, conn, client, stream, body, hist, tree>>
        /\ Serving

\* What a client may have sent behind its STARTTLS line without waiting for
\* the 220, and the reader may so hold when the line is handled: nothing,
\* or the EHLO it sends after the upgrade.
Pipelined(lines) == {<<>>} \cup {<<l>> : l \in lines \cap {L_EHLO}}

\* The ends of starttls::handle in the arm of the match for a Tls stream.
Unreachable == {"unreachable", "unreachable, abort"}

\* STARTTLS.  With TLS active: 454.  Otherwise 220, flush, has_tlsd, and the
\* handshake on the stream taken out of the reader by ptr::read.  When the
\* handshake fails, ? returns with the reader still holding the stream that
\* accept() consumed: the reader is dropped a second time, which is
\* undefined; the build either carries the Err out or aborts the process.
\* into_inner() drops what the reader held: the handshake runs on the
\* socket, and the reader written back starts empty.  A stream that is Tls
\* already takes the unreachable!() arm of the match: a panic, with the
\* stream owned twice as it unwinds.
Starttls ==
    \E line \in StarttlsLines :
        /\ Reads(line)
        /\ IF mail.has_tlsd
           THEN /\ Turn("STARTTLS", line, starttls_active(mail))
                /\ stream' = stream
                /\ piped' = <<>>
           ELSE LET eff == starttls_begin(mail)
                IN  \E end \in (IF wshut THEN {"write fails"}
                                ELSE IF stream = "Tls"
                                THEN {"write fails", "unreachable", "unreachable, abort"}
                                ELSE {"upgraded", "write fails", "handshake fails",
                                      "handshake fails, abort"}) :
                      /\ \E held \in Pipelined(client) :
                            piped' = IF end = "write fails" THEN <<>> ELSE held
                      /\ mail' = IF end = "write fails" THEN mail ELSE eff.mail
                      /\ last' = Step("STARTTLS", line, mail,
                                      IF end = "write fails" THEN <<>> ELSE eff.out,
                                      CASE end = "upgraded" -> "ok"
                                        [] end \in Unreachable -> "panic"
                                        [] OTHER -> "err",
                                      end \notin {"upgraded"} \cup Unreachable)
                      /\ hist' = hist
                      /\ stream' = IF end = "upgraded" THEN "Tls" ELSE stream
                      /\ pc' = CASE end = "upgraded" -> "session"
                                 [] end = "handshake fails, abort" -> "aborted"
                                 [] end = "unreachable" -> "panicked"
                                 [] end = "unreachable, abort" -> "aborted"
                                 [] OTHER -> "accept"
        /\ UNCHANGED <<config, conn, client, wshut, body, tree>>
        /\ Supervised

\* A first token that is no verb.
Unknown ==
    \E line \in UnknownLines :
        /\ Reads(line)
        /\ Turn("unknown", line, unknown_handle(mail))
        /\ UNCHANGED <<config, conn, client, stream, wshut, body, tree>>
        /\ Serving

\* A line of whitespace only: logged, and the loop continues.
Blank ==
    \E line \in BlankLines :
        /\ Reads(line)
        /\ Turn("blank", line, Effect(mail, <<>>, "ok"))
        /\ UNCHANGED <<config, conn, client, stream, wshut, body, tree>>
        /\ Serving

\* A line read in data mode; body keeps the lines the client sent before the
\* one that ended the body.
DataLine ==
    \E line \in BodyLines :
        /\ pc = "session"
        /\ mail.sending_data
        /\ Sendable(line)
        /\ Turn("body", line, data_line(mail, line))
        /\ body' = IF trim_end(line) = s_DOT THEN body ELSE Append(body, line)
        /\ UNCHANGED <<config, conn, client, stream, wshut, tree>>
        /\ Serving

\* Uuid::now_v7(): unique to the connection.
new_id == <<config.port, conn>>

\* read_line returns 0: the loop breaks, the id is assigned, Ok(mail).
Eof ==
    /\ pc = "session"
    /\ mail' = [mail EXCEPT !.id = Some(new_id)]
    /\ last' = Step("eof", <<>>, mail, <<>>, "ok", FALSE)
    /\ pc' = "deliver"
    /\ UNCHANGED <<config, conn, client, stream, wshut, body, hist, tree>>
    /\ Serving

\* A read error leaving the loop as the end of input does.
MutReadErrorReturnsMail ==
    /\ pc = "session"
    /\ mail' = [mail EXCEPT !.id = Some(new_id)]
    /\ last' = Step("read error", <<>>, mail, <<>>, "err", TRUE)
    /\ pc' = "deliver"
    /\ UNCHANGED <<config, conn, client, stream, wshut, body, hist, tree>>
    /\ Serving

\* read_line returns Err: the session ends with it.
ReadError ==
    /\ pc = "session"
    /\ last' = Step("read error", <<>>, mail, <<>>, "err", TRUE)
    /\ pc' = "accept"
    /\ UNCHANGED <<config, conn, client, mail, stream, wshut, body, hist, tree>>
    /\ Serving

\* The Ok(mail) arm of listen.  Each filesystem call may fail, and ? then
\* returns the Err from listen.
Deliver ==
    /\ pc = "deliver"
    /\ LET ops == delivery_ops(Accounts, config, mail)
       IN  \E k \in 0..Len(ops) :
              /\ tree' = ApplyOps(tree, ops, k)
              /\ pc' = IF k = Len(ops) THEN "accept" ELSE "listen failed"
              /\ last' = Step("deliver", <<>>, mail, <<>>,
                              IF k = Len(ops) THEN "ok" ELSE "err", FALSE)
    /\ UNCHANGED <<config, conn, client, mail, stream, wshut, body, hist>>
    /\ Serving

Next ==
    \/ Accept
    \/ Ehlo
    \/ Auth
    \/ MailFrom
    \/ RcptTo
    \/ Data
    \/ Quit
    \/ Starttls
    \/ Unknown
    \/ Blank
    \/ DataLine
    \/ Eof
    \/ ReadError
    \/ Deliver

Spec == Init /\ [][Next]_vars

\* ---------------------------------------------------------------- listener
\* The listener followed from its start through several connections, with
\* the supervisor and the other port's listener beside it.

\* What the clients of these connections send: they relay a message with an
\* empty body, upgrade the stream, or send the AUTH payload of one field,
\* and end by closing the connection.
ListenProfile ==
    {L_STARTTLS, L_AUTH_ONE, L_MAIL_BOTH, L_RCPT_PRIMARY, L_DATA, L_DOT}

\* How a listener task ends: listen returned Ok(()), returned an Err, or
\* panicked.
Ended == {"returned", "listen failed", "panicked"}

InitListen ==
    /\ config \in {TransferPort, SubmissionPort}
    /\ pc = "start"
    /\ conn = 0
    /\ client = {}
    /\ mail = DefaultMail
    /\ stream = "Plain"
    /\ wshut = FALSE
    /\ body = <<>>
    /\ hist = NoHist
    /\ last = [op |-> "init", line |-> <<>>, pre |-> DefaultMail, shut |-> FALSE,
               hist |-> NoHist, out |-> <<>>, res |-> "ok", io |-> FALSE]
    /\ tree = [dirs |-> {}, files |-> <<>>]
    /\ orch = "running"
    /\ peer = "running"
    /\ backlog = 0
    /\ query = NoQuery
    /\ piped = <<>>

\* The head of listen: EMAIL_PATH unset returns Ok(()); CERT_PATH or KEY_PATH
\* unset panics in unwrap(), as does an empty certificate file; a
\* certificate or key that does not load, or a port that does not bind,
\* returns the Err.
Startup ==
    /\ pc = "start"
    /\ \E end \in {"bound", "EMAIL_PATH unset", "CERT_PATH unset", "bind fails"} :
          /\ pc' = CASE end = "bound" -> "accept"
                      [] end = "EMAIL_PATH unset" -> "returned"
                      [] end = "CERT_PATH unset" -> "panicked"
                      [] end = "bind fails" -> "listen failed"
          /\ last' = Step("listen", <<>>, mail, <<>>,
                          IF end = "bound" THEN "ok" ELSE end, FALSE)
    /\ UNCHANGED <<config, conn, client, mail, stream, wshut, body, hist, tree>>
    /\ Serving

\* A client connects to the bound port: the connection waits for accept().
Connect ==
    /\ orch = "running"
    /\ pc \notin {"start", "aborted"} \cup Ended
    /\ conn + backlog < MaxConn
    /\ backlog' = backlog + 1
    /\ UNCHANGED <<config, pc, conn, client, mail, stream, wshut, last, body,
                   hist, tree, orch, peer, query, piped>>

\* listener.accept() on a waiting connection, and the head of handle_smtp,
\* which listen awaits before it comes back to accept().
AcceptQueued ==
    /\ orch = "running"
    /\ pc = "accept"
    /\ backlog > 0
    /\ backlog' = backlog - 1
    /\ conn' = conn + 1
    /\ mail' = DefaultMail
    /\ stream' = "Plain"
    /\ wshut' = FALSE
    /\ body' = <<>>
    /\ hist' = NoHist
    /\ client' = ListenProfile
    /\ \E wok \in BOOLEAN :
          /\ pc' = IF wok THEN "session" ELSE "accept"
          /\ last' = Step("accept", <<>>, DefaultMail,
                          IF wok THEN <<R220Ready>> ELSE <<>>,
                          IF wok THEN "ok" ELSE "err", ~wok)
    /\ piped' = <<>>
    /\ UNCHANGED <<config, tree, orch, peer, query>>

\* The listener task of the other port ends, in one of the ways listen can;
\* start_smtp treats them alike.
PeerEnds ==
    /\ orch = "running"
    /\ pc # "aborted"
    /\ peer = "running"
    /\ peer' = "ended"
    /\ UNCHANGED <<config, pc, conn, client, mail, stream, wshut, last, body,
                   hist, tree, orch, backlog, query, piped>>

\* start_smtp waiting for both listener tasks before it returns.
MutSuperviseJoinsBoth ==
    /\ orch = "running"
    /\ pc \in Ended /\ peer = "ended"
    /\ orch' = "exited"
    /\ UNCHANGED <<config, pc, conn, client, mail, stream, wshut, last, body,
                   hist, tree, peer, backlog, query, piped>>

\* tokio::select! in start_smtp: the JoinHandle of a listener task that
\* ended is ready; start_smtp logs and returns, and main returns after it.
Supervise ==
    /\ orch = "running"
    /\ pc \in Ended \/ peer = "ended"
    /\ orch' = "exited"
    /\ UNCHANGED <<config, pc, conn, client, mail, stream, wshut, last, body,
                   hist, tree, peer, backlog, query, piped>>

NextListen ==
    \/ Startup
    \/ Connect
    \/ AcceptQueued
    \/ Auth
    \/ MailFrom
    \/ RcptTo
    \/ Data
    \/ Starttls
    \/ DataLine
    \/ Eof
    \/ ReadError
    \/ Deliver
    \/ PeerEnds
    \/ Supervise

SpecListen == InitListen /\ [][NextListen]_vars

\* The scheduler runs start_smtp when a JoinHandle it selects on is ready.
FairListen == SpecListen /\ WF_vars(Supervise)

\* ------------------------------------------------------------ configurator
\* The configurator followed on its own: a configuration and an address are
\* drawn, and the resolver, the two lookups of listen, or get_all_addresses
\* is applied.

\* The sequences over S of length at most n.
SeqsUpTo(S, n) == UNION {[1..k -> S] : k \in 0..n}

a_other == <<"e","@","d">>
a_upper == <<"U","@","d">>

\* Account values: a user of the domain d, with no alias list or a list of
\* aliases.
AccountValues ==
    {[user |-> u, domain |-> <<"d">>, aliases |-> al, hashed_password |-> None] :
        u \in {<<"u">>, <<"h">>},
        al \in {None} \cup {Some(l) : l \in SeqsUpTo({a_alias, a_other}, MaxAliases)}}

\* The addresses asked for.
AskedAddresses == {a_primary, a_alias, a_other, a_upper}

InitLookup ==
    /\ config = TransferPort
    /\ pc = "lookup"
    /\ conn = 0
    /\ client = {}
    /\ mail = DefaultMail
    /\ stream = "Plain"
    /\ wshut = FALSE
    /\ body = <<>>
    /\ hist = NoHist
    /\ last = [op |-> "init", line |-> <<>>, pre |-> DefaultMail, shut |-> FALSE,
               hist |-> NoHist, out |-> <<>>, res |-> "ok", io |-> FALSE]
    /\ tree = [dirs |-> {}, files |-> <<>>]
    /\ orch = "running"
    /\ peer = "running"
    /\ backlog = 0
    /\ piped = <<>>
    /\ query \in {[op |-> "ask", accounts |-> c, addr |-> a] :
                      c \in SeqsUpTo(AccountValues, MaxAccounts), a \in AskedAddresses}

\* get_user_from_alias(addr), and what listen computes for the same address
\* as mail.from and as a recipient.
Resolve ==
    /\ pc = "lookup"
    /\ query.op = "ask"
    /\ query' = [op |-> "get_user_from_alias",
                 accounts |-> query.accounts,
                 addr |-> query.addr,
                 result |-> get_user_from_alias(query.accounts, query.addr),
                 sender |-> from_account(query.accounts, query.addr),
                 local |-> is_local(query.accounts, query.addr)]
    /\ UNCHANGED <<config, pc, conn, client, mail, stream, wshut, last, body,
                   hist, tree, orch, peer, backlog, piped>>

\* get_all_addresses() on an account of the configuration.
AllAddresses ==
    /\ pc = "lookup"
    /\ query.op = "ask"
    /\ \E i \in 1..Len(query.accounts) :
          query' = [op |-> "get_all_addresses",
                    account |-> query.accounts[i],
                    result |-> get_all_addresses(query.accounts[i])]
    /\ UNCHANGED <<config, pc, conn, client, mail, stream, wshut, last, body,
                   hist, tree, orch, peer, backlog, piped>>

NextLookup ==
    \/ Resolve
    \/ AllAddresses

SpecLookup == InitLookup /\ [][NextLookup]_vars

\* ------------------------------------------------------------------ claims

\* Whether the replies hold a 250 line with the text.
Advertises(out, text) ==
    \E i \in 1..Len(out) : \E j \in 1..Len(out[i]) :
        out[i][j].code = "250" /\ out[i][j].text = text

\* An EHLO that was answered.
EhloAnswered == last.op = "EHLO" /\ last.out # <<>>

\* C1: an EHLO reply holds the STARTTLS line exactly when has_tlsd was
\* false, and never once the stream has been upgraded to TLS.
C1_StarttlsOffered ==
    EhloAnswered =>
        /\ Advertises(last.out, "STARTTLS") <=> ~last.pre.has_tlsd
        /\ stream = "Tls" => ~Advertises(last.out, "STARTTLS")

\* An EHLO answered after the upgrade.
C1_Witness ==
    EhloAnswered /\ stream = "Tls" /\ ~Advertises(last.out, "STARTTLS")

\* C2: an EHLO reply holds the AUTH PLAIN line exactly when the port has
\* auth_enabled and has_tlsd is true: never on the transfer port, and on
\* the submission port only on the upgraded stream.
C2_AuthOffered ==
    EhloAnswered =>
        /\ Advertises(last.out, "AUTH PLAIN")
               <=> (config.auth_enabled /\ last.pre.has_tlsd)
        /\ config = TransferPort => ~Advertises(last.out, "AUTH PLAIN")
        /\ Advertises(last.out, "AUTH PLAIN")
               => config = SubmissionPort /\ stream = "Tls"

\* An EHLO reply offering AUTH PLAIN.
C2_Witness == EhloAnswered /\ Advertises(last.out, "AUTH PLAIN")

\* C3: once QUIT has been answered and the write half shut down, the
\* session has left its loop: it is not reading, and no step of the loop
\* was taken with the write half shut.
C3_QuitEndsSession ==
    /\ wshut => pc # "session"
    /\ last.shut => last.op = "deliver"

\* The four forms of the MAIL argument.
MailForms == {L_MAIL_BOTH, L_MAIL_BARE, L_MAIL_OPEN, L_MAIL_CLOSE}

\* C4: each of FROM:<a@b>, FROM:a@b, FROM:<a@b and FROM:a@b> is answered
\* 250 OK and leaves mail.from = a@b.
C4_MailFromTolerant ==
    last.op = "MAIL" /\ last.line \in MailForms /\ ~last.io =>
        last.out = <<R250Ok>> /\ mail.from = a_ext

\* A body line with its stuffed dot removed.
dot_unstuff(line) == IF StartsWith(line, <<".", ".">>) THEN Tail(line) ELSE line

\* The body a client transmitted, unstuffed, as one string with the line
\* endings the data field keeps.
RECURSIVE Unstuffed(_)
Unstuffed(lines) ==
    IF lines = <<>> THEN <<>>
    ELSE replace_crlf(dot_unstuff(Head(lines))) \o Unstuffed(Tail(lines))

\* C5: mail.data, and every file delivered, is the body the client
\* transmitted before the line holding only a dot, each line dot-unstuffed
\* and its CRLF kept as LF.
C5_DataRoundTrip ==
    /\ mail.data = Unstuffed(body)
    /\ \A q \in DOMAIN tree.files : tree.files[q] = Unstuffed(body)

\* A delivery that went through, all of whose recipients are addresses of
\* the account a.
DeliveredTo(a) ==
    /\ last.op = "deliver"
    /\ last.res = "ok"
    /\ mail.to # <<>>
    /\ \A i \in 1..Len(mail.to) : Contains(get_all_addresses(Accounts[a]), mail.to[i])

\* C6: recipients that all resolve to one account give exactly one file,
\* <primary>/Inbox/<id>.eml, and no directory named after an alias.
C6_AliasDeliveryOnce ==
    \A a \in 1..Len(Accounts) :
        DeliveredTo(a) =>
            LET primary == Accounts[a].user \o s_AT \o Accounts[a].domain
            IN  /\ {q \in DOMAIN tree.files : q[1][2] = "Inbox"}
                       = {<< <<primary, "Inbox">>, mail.id[1] >>}
                /\ \A d \in tree.dirs : d[1] = primary

\* The alias, then the primary address, delivered.
C6_Witness ==
    /\ DeliveredTo(1)
    /\ mail.to = <<a_alias, a_primary>>
    /\ DOMAIN tree.files # {}

\* The well-formed payloads that fail: no such user, no password stored, a
\* stored hash that does not parse, the wrong password.
AuthFailures == {L_AUTH_UNKNOWN, L_AUTH_NOPW, L_AUTH_BADHASH, L_AUTH_WRONG}

\* C7: each of the four failures, sent when not in mail, is answered by the
\* one reply 535 Authentication failed, changes no flag, and leaves the
\* session in command mode.
C7_UniformAuthFailure ==
    last.op = "AUTH" /\ last.line \in AuthFailures /\ ~last.pre.in_mail =>
        /\ last.out \in {<<>>, <<R535>>}
        /\ ~last.io =>
              /\ last.out = <<R535>>
              /\ mail = last.pre
              /\ hist = last.hist
              /\ wshut = last.shut
              /\ pc = "session"
              /\ ~mail.sending_data

\* The stored hash that does not parse, answered 535.
C7_Witness ==
    /\ last.op = "AUTH"
    /\ last.line = L_AUTH_BADHASH
    /\ last.out = <<R535>>
    /\ pc = "session"

\* The payloads that are not base64 or have not three fields.
AuthMalformed == {L_AUTH_NOTB64, L_AUTH_ONE, L_AUTH_TWO, L_AUTH_FOUR}

\* C8: an AUTH PLAIN payload that is not base64, or has not three fields,
\* is answered by the one reply 535, and the session stays in command mode.
C8_MalformedPayloadAnswered ==
    last.op = "AUTH" /\ last.line \in AuthMalformed /\ ~last.pre.in_mail /\ ~last.io =>
        /\ last.out = <<R535>>
        /\ last.res = "ok"
        /\ pc = "session"

\* C9: once an AUTH has been answered 235, has_authed is true, and every
\* later AUTH is answered 503.
C9_AuthOnce ==
    /\ hist.authed => mail.has_authed
    /\ last.op = "AUTH" /\ last.hist.authed /\ ~last.io => last.out = <<R503Auth>>

\* C10: once a MAIL has been processed, in_mail stays true, and every later
\* AUTH is answered 503 and never 235.
C10_NoAuthAfterMail ==
    /\ hist.mailed => mail.in_mail
    /\ last.op = "AUTH" /\ last.hist.mailed =>
          /\ last.out \in {<<>>, <<R503Auth>>}
          /\ ~last.io => last.out = <<R503Auth>> /\ last.res = "ok"

\* Valid credentials refused after a MAIL and a completed body.
C10_Witness ==
    /\ last.op = "AUTH"
    /\ last.line = L_AUTH_OK
    /\ last.hist.mailed
    /\ last.out = <<R503Auth>>
    /\ mail.data # <<>>
    /\ ~mail.sending_data

\* The steps that read a line in command mode.
CommandOps ==
    {"EHLO", "AUTH", "MAIL", "RCPT", "DATA", "QUIT", "STARTTLS", "unknown", "blank"}

\* C11: every line processed in command mode is answered by exactly one
\* reply (EHLO's lines are one reply) before the next line is read.
C11_OneReplyPerCommand ==
    last.op \in CommandOps /\ ~last.io => Len(last.out) = 1

\* A listener task has ended.
SomeListenerEnded == pc \in Ended \/ peer = "ended"

\* C14: both listeners start running; start_smtp returns only once a
\* listener task has ended, and whenever one has ended (Ok, Err or panic) it
\* returns, without waiting for the other; a listener that ended is never
\* started again.
C14_FailFast ==
    /\ [](orch = "exited" => SomeListenerEnded)
    /\ [][(pc \in Ended => pc' = pc) /\ (peer = "ended" => peer' = peer)
            /\ (orch = "exited" => orch' = orch)]_vars
    /\ SomeListenerEnded ~> orch = "exited"

\* EMAIL_PATH unset: this listener returned Ok(()), start_smtp returned, and
\* the other listener was still running.
C14_Witness ==
    /\ orch = "exited"
    /\ pc = "returned"
    /\ last.res = "EMAIL_PATH unset"
    /\ peer = "running"

\* C12: a connection that waits at the port is accepted by the running
\* listener whatever the session of an earlier connection is doing.
C12_ConcurrentSessions ==
    backlog > 0 /\ orch = "running" /\ pc \notin {"start", "aborted"} \cup Ended
        => ENABLED AcceptQueued

\* The steps of a session.
SessionOps ==
    {"accept", "EHLO", "AUTH", "MAIL", "RCPT", "DATA", "QUIT", "STARTTLS",
     "unknown", "blank", "body", "read error"}

\* C13: after a session ended in failure the listener is back in accept(),
\* and neither it nor the process has ended because of that session.
C13_SessionFailureConfined ==
    last.op \in SessionOps /\ last.res # "ok" => pc = "accept"

\* The relay of scenario 1 with QUIT answered: on the transfer port, MAIL
\* from the external address, RCPT to the primary address, the body Hi
\* accepted, 221 written and the write half shut down, all before the step
\* last taken.
RelayedAndQuit ==
    /\ config = TransferPort
    /\ last.pre.from = a_ext
    /\ last.pre.to = <<a_primary>>
    /\ last.pre.data = replace_crlf(L_HI)
    /\ ~last.pre.sending_data
    /\ last.shut

\* C15: once that relay has been answered 221 and the session is over, with
\* no failure of the transport or the filesystem, the file
\* <primary>/Inbox/<id>.eml holds the body, whatever the client sent after
\* QUIT.
C15_RelayedMailDelivered ==
    /\ RelayedAndQuit
    /\ pc = "accept"
    /\ last.op # "read error"
    /\ last.io => last.shut
    => /\ mail.id # None
       /\ << <<a_primary, "Inbox">>, mail.id[1] >> \in DOMAIN tree.files
       /\ tree.files[<< <<a_primary, "Inbox">>, mail.id[1] >>] = replace_crlf(L_HI)

\* The files under a folder.
FilesIn(folder) == {q \in DOMAIN tree.files : q[1][2] = folder}

\* C16: a file under a Sent folder exists only if an AUTH of the session was
\* answered 235.
C16_SentOnlyWhenAuthenticated ==
    FilesIn("Sent") # {} => hist.authed

\* The accounts an address belongs to, as primary address or alias.
AccountOf(addr) ==
    {a \in 1..Len(Accounts) :
        \/ addr = Accounts[a].user \o s_AT \o Accounts[a].domain
        \/ Accounts[a].aliases # None /\ Contains(Accounts[a].aliases[1], addr)}

\* The primary address of an account.
Primary(a) == Accounts[a].user \o s_AT \o Accounts[a].domain

\* A delivery that went through.
Delivered == last.op = "deliver" /\ last.res = "ok"

\* C17: a delivery writes <sender.primary>/Sent/<id>.eml holding mail.data
\* exactly when mail.from is an address of an account and the port has
\* auth_enabled: never on the transfer port, and under the primary address
\* also when mail.from is an alias.
C17_SentRule ==
    Delivered =>
        LET expected == IF config.auth_enabled
                        THEN {<< <<Primary(a), "Sent">>, mail.id[1] >> :
                                  a \in AccountOf(mail.from)}
                        ELSE {}
        IN  /\ FilesIn("Sent") = expected
            /\ {d \in tree.dirs : d[2] = "Sent"} = {q[1] : q \in expected}
            /\ \A q \in FilesIn("Sent") : tree.files[q] = mail.data
            /\ config = TransferPort => FilesIn("Sent") = {}

\* MAIL from the alias on the submission port, filed under the primary
\* address.
C17_Witness ==
    /\ Delivered
    /\ config = SubmissionPort
    /\ mail.from = a_alias
    /\ FilesIn("Sent") = {<< <<a_primary, "Sent">>, mail.id[1] >>}

\* C18: the Inbox files of a delivery are exactly <primary>/Inbox/<id>.eml
\* for the recipients that are addresses of an account, each holding
\* mail.data; any other recipient gives no file and no directory, and takes
\* nothing from the recipients before or after it.
C18_InboxRule ==
    Delivered =>
        LET locals == UNION {AccountOf(mail.to[i]) : i \in 1..Len(mail.to)}
            expected == {<< <<Primary(a), "Inbox">>, mail.id[1] >> : a \in locals}
        IN  /\ FilesIn("Inbox") = expected
            /\ {d \in tree.dirs : d[2] = "Inbox"} = {q[1] : q \in expected}
            /\ \A q \in FilesIn("Inbox") : tree.files[q] = mail.data

\* A recipient elsewhere listed before a local one.
C18_Witness ==
    /\ Delivered
    /\ mail.to = <<a_ext, a_primary>>
    /\ FilesIn("Inbox") = {<< <<a_primary, "Inbox">>, mail.id[1] >>}

\* The address set of an account.
AddressSet(account) ==
    {get_all_addresses(account)[i] : i \in 1..Len(get_all_addresses(account))}

\* Accounts whose address sets are pairwise disjoint.
Disjoint(accounts) ==
    \A i, j \in 1..Len(accounts) :
        i # j => AddressSet(accounts[i]) \cap AddressSet(accounts[j]) = {}

\* C19: over accounts with pairwise disjoint address sets, the resolver
\* returns Some(u) exactly for the account u whose address set holds the
\* address, None exactly when no account's does, and the sender lookup and
\* the local-recipient filter of listen agree with it.
C19_ResolverUnique ==
    query.op = "get_user_from_alias" /\ Disjoint(query.accounts) =>
        /\ \A i \in 1..Len(query.accounts) :
               query.result = Some(query.accounts[i])
                   <=> query.addr \in AddressSet(query.accounts[i])
        /\ query.result = None
               <=> \A i \in 1..Len(query.accounts) :
                      query.addr \notin AddressSet(query.accounts[i])
        /\ query.sender = query.result
        /\ query.local = (query.result # None)

\* An alias of the second of two accounts resolved.
C19_Witness ==
    /\ query.op = "get_user_from_alias"
    /\ Disjoint(query.accounts)
    /\ Len(query.accounts) = 2
    /\ query.result = Some(query.accounts[2])
    /\ query.addr # query.accounts[2].user \o s_AT \o query.accounts[2].domain
    /\ query.local

\* C20: get_all_addresses gives the aliases in their order and then, once,
\* the primary address user@domain; with no aliases, the primary address
\* alone.
C20_AliasesThenPrimary ==
    query.op = "get_all_addresses" =>
        LET r == query.result
            primary == query.account.user \o s_AT \o query.account.domain
        IN  IF query.account.aliases = None
            THEN r = <<primary>>
            ELSE LET al == query.account.aliases[1]
                 IN  /\ Len(r) = Len(al) + 1
                     /\ \A i \in 1..Len(al) : r[i] = al[i]
                     /\ r[Len(r)] = primary

\* Two aliases and the primary address.
C20_Witness ==
    /\ query.op = "get_all_addresses"
    /\ query.account.aliases = Some(<<a_alias, a_other>>)
    /\ query.result = <<a_alias, a_other, a_primary>>

\* The mailbox tree with nothing in it.
EmptyTree == [dirs |-> {}, files |-> <<>>]

\* The steps that read a line.
LineOps == CommandOps \cup {"body"}

\* The file writes among the filesystem operations of a delivery.
WritesOf(ops) == {i \in 1..Len(ops) : ops[i].kind = "write"}

\* C21: a session that ends with a transport failure, also after a body was
\* answered 250, writes no reply for the failure and no file, and its Mail
\* never reaches the delivery; the Mail of a session that ended cleanly is
\* delivered once: one write for each recipient occurrence that resolves,
\* and for the Sent copy, all under the same id.
C21_DiscardOnFailure ==
    /\ last.op \in SessionOps /\ last.io =>
          /\ pc \in {"accept", "aborted"}
          /\ tree = EmptyTree
          /\ mail.id = None
          /\ last.op = "read error" => last.out = <<>>
          /\ last.op = "STARTTLS" => last.out \in {<<>>, <<R220Tls>>}
    /\ pc = "deliver" => last.op = "eof" /\ ~last.io /\ mail.id # None
    /\ tree # EmptyTree => last.op = "deliver"
    /\ Delivered =>
          LET ops == delivery_ops(Accounts, config, mail)
              sent == IF config.auth_enabled /\ AccountOf(mail.from) # {} THEN 1 ELSE 0
              hits == {i \in 1..Len(mail.to) : AccountOf(mail.to[i]) # {}}
          IN  /\ Cardinality(WritesOf(ops)) = sent + Cardinality(hits)
              /\ \A i \in WritesOf(ops) :
                    /\ ops[i].id = mail.id[1]
                    /\ <<ops[i].dir, ops[i].id>> \in DOMAIN tree.files
              /\ \A q \in DOMAIN tree.files : q[2] = mail.id[1]

\* A transport failure after the body Hi for the primary address was
\* answered 250: nothing is filed.
C21_Witness ==
    /\ last.op \in SessionOps
    /\ last.io
    /\ last.pre.to = <<a_primary>>
    /\ last.pre.data = replace_crlf(L_HI)
    /\ ~last.pre.sending_data
    /\ pc = "accept"
    /\ tree = EmptyTree

\* C22: STARTTLS without TLS is answered 220 and, the handshake done, leaves
\* the stream Tls and has_tlsd set; with TLS it is answered 454 and changes
\* nothing; a handshake starts only from a session without TLS, and has_tlsd
\* is never cleared, so a connection sees one handshake at most.
C22_StarttlsOnce ==
    /\ last.op = "STARTTLS" /\ ~last.io =>
          /\ pc = "session"
          /\ stream = "Tls"
          /\ ~mail.sending_data
          /\ IF last.pre.has_tlsd
             THEN last.out = <<R454>> /\ mail = last.pre
             ELSE last.out = <<R220Tls>> /\ mail = [last.pre EXCEPT !.has_tlsd = TRUE]
    /\ last.op = "STARTTLS" /\ last.out = <<R220Tls>> => ~last.pre.has_tlsd
    /\ last.op \in LineOps /\ last.pre.has_tlsd => mail.has_tlsd
    /\ pc = "session" => (mail.has_tlsd <=> stream = "Tls")

\* A second STARTTLS, refused on the Tls stream.
C22_Witness ==
    /\ last.op = "STARTTLS"
    /\ last.pre.has_tlsd
    /\ last.out = <<R454>>
    /\ stream = "Tls"
    /\ pc = "session"

\* C23: a STARTTLS handled while the reader holds input the client sent
\* behind it closes the connection: the stream is never upgraded over a
\* reader that held input.
C23_NoPlaintextAcrossUpgrade ==
    last.op = "STARTTLS" /\ piped # <<>> => pc # "session" /\ stream = "Plain"

\* C24: DATA with from or to empty is answered 503 and enters data mode all
\* the same, the 354 following; with both set it is answered 354 only; and
\* every line read in data mode is taken as body, no reply written, up to
\* the line that ends it.
C24_DataQuirk ==
    /\ last.op = "DATA" /\ ~last.io =>
          /\ pc = "session"
          /\ mail = [last.pre EXCEPT !.sending_data = TRUE]
          /\ last.out = IF last.pre.from = <<>> \/ last.pre.to = <<>>
                        THEN <<R503Seq, R354>>
                        ELSE <<R354>>
    /\ last.op \in LineOps /\ last.pre.sending_data =>
          /\ last.op = "body"
          /\ trim_end(last.line) # s_DOT =>
                /\ last.out = <<>>
                /\ mail = [last.pre EXCEPT !.data = last.pre.data \o replace_crlf(last.line)]

\* DATA before any MAIL, and the QUIT sent after it kept as body.
C24_Witness ==
    /\ last.op = "body"
    /\ last.line = L_QUIT
    /\ last.pre.from = <<>>
    /\ mail.sending_data
    /\ mail.data = replace_crlf(L_QUIT)

\* C25: mail.id is empty in every state of the loop, also when a body has
\* ended; it is assigned by the step that follows the end of the loop, and
\* the delivery keeps it: every file of the connection carries it.
C25_IdAssignedOnce ==
    /\ pc = "session" => mail.id = None
    /\ last.op \in SessionOps => mail.id = None
    /\ last.op = "eof" =>
          /\ last.pre.id = None
          /\ mail.id = Some(new_id)
          /\ pc = "deliver"
    /\ last.op = "deliver" =>
          /\ mail = last.pre
          /\ \A q \in DOMAIN tree.files : q[2] = mail.id[1]

\* A Sent copy and an Inbox copy under the one id.
C25_Witness ==
    /\ Delivered
    /\ FilesIn("Sent") # {}
    /\ FilesIn("Inbox") # {}
    /\ {q[2] : q \in DOMAIN tree.files} = {mail.id[1]}

\* The lines of a body as the data field keeps them.
RECURSIVE Kept(_)
Kept(lines) ==
    IF lines = <<>> THEN <<>>
    ELSE replace_crlf(Head(lines)) \o Kept(Tail(lines))

\* C26: the line that ends a body, answered 250, clears sending_data and
\* nothing else; mail.data is at any time all the body lines the connection
\* has taken, whatever the number of DATA commands, and every file delivered
\* holds them all.
C26_NoResetBetweenTransactions ==
    /\ last.op = "body" /\ last.out = <<R250Accepted>> =>
          /\ mail = [last.pre EXCEPT !.sending_data = FALSE]
          /\ pc = "session"
    /\ mail.data = Kept(body)
    /\ \A q \in DOMAIN tree.files : tree.files[q] = Kept(body)

\* A second DATA taken with the first body, its sender and its recipient
\* still in place.
C26_Witness ==
    /\ last.op = "DATA"
    /\ ~last.pre.sending_data
    /\ last.pre.data = replace_crlf(L_HI)
    /\ last.out = <<R354>>
    /\ mail.sending_data
    /\ mail.data = replace_crlf(L_HI)
    /\ mail.from = a_ext
    /\ mail.to = <<a_primary>>

\* A line holding a dot and nothing else before its line ending.
SoleDot(line) == line \in {s_DOT \o CRLF, s_DOT \o <<LF>>, s_DOT}

\* C27: in data mode a line that is not a dot alone is appended to mail.data
\* with CRLF as LF, without a reply and without another change, also when it
\* spells a verb, holds a dot followed by blanks, or starts with two dots;
\* a line that is a dot alone ends data mode, is not appended, and is
\* answered 250.
C27_DataFraming ==
    last.op = "body" /\ ~last.io =>
        IF SoleDot(last.line)
        THEN /\ last.out = <<R250Accepted>>
             /\ mail = [last.pre EXCEPT !.sending_data = FALSE]
        ELSE /\ last.out = <<>>
             /\ mail = [last.pre EXCEPT !.data = last.pre.data \o replace_crlf(last.line)]

\* The reply to a line that breaks the protocol, None for any other line.
ViolationReply(op, line) ==
    IF op = "unknown" THEN Some(<<R502>>)
    ELSE IF op = "AUTH" /\ Len(Tokens(line)) < 2 THEN Some(<<R501>>)
    ELSE IF op = "AUTH" /\ Tokens(line)[2] # s_PLAIN THEN Some(<<R504>>)
    ELSE None

\* C28 as stated: a first token that is no verb is answered 502, AUTH
\* without a mechanism 501, AUTH with a mechanism other than PLAIN 504, and
\* in each case the Mail is unchanged and the session stays in command mode.
C28_ViolationsAnswered ==
    last.op \in {"unknown", "AUTH"} /\ ~last.io
        /\ ViolationReply(last.op, last.line) # None =>
            /\ last.out = ViolationReply(last.op, last.line)[1]
            /\ mail = last.pre
            /\ pc = "session"
            /\ ~mail.sending_data

\* C28, amended: the 501 and the 504 are the replies while neither in_mail
\* nor has_authed is set; once one is set the AUTH is answered 503; in every
\* case the Mail is unchanged and the session stays in command mode.
C28_ViolationsAnsweredBeforeMail ==
    last.op \in {"unknown", "AUTH"} /\ ~last.io
        /\ ViolationReply(last.op, last.line) # None =>
            /\ last.out = IF last.op = "AUTH" /\ (last.pre.in_mail \/ last.pre.has_authed)
                          THEN <<R503Auth>>
                          ELSE ViolationReply(last.op, last.line)[1]
            /\ mail = last.pre
            /\ pc = "session"
            /\ ~mail.sending_data

\* RSET after a MAIL: 502, and the sender still in place.
C28_Witness ==
    /\ last.op = "unknown"
    /\ last.line = L_RSET
    /\ last.pre.from = a_ext
    /\ last.out = <<R502>>
    /\ mail = last.pre
    /\ pc = "session"

\* An argument with its header, its "<" and its ">" taken off, each where
\* it is there.
Bare(arg, header) ==
    LET a1 == strip_prefix_or(arg, header, arg)
        a2 == strip_prefix_or(a1, s_LT, a1)
    IN  strip_suffix_or(a2, s_GT, a2)

\* C29: RCPT with an argument appends the address, TO: and angle brackets
\* taken off, to the end of mail.to and changes nothing else; MAIL with an
\* argument sets from and in_mail and changes nothing else; no step of a
\* session takes a recipient off mail.to or reorders it.
C29_MailRcptFrame ==
    /\ last.op = "RCPT" /\ ~last.io /\ Len(Tokens(last.line)) >= 2 =>
          mail = [last.pre EXCEPT !.to = Append(last.pre.to,
                                                Bare(Tokens(last.line)[2], s_TO))]
    /\ last.op = "MAIL" /\ ~last.io /\ Len(Tokens(last.line)) >= 2 =>
          /\ mail.in_mail
          /\ mail.from # <<>>
          /\ mail = [last.pre EXCEPT !.from = mail.from, !.in_mail = TRUE]
    /\ last.op \in LineOps =>
          /\ Len(mail.to) >= Len(last.pre.to)
          /\ SubSeq(mail.to, 1, Len(last.pre.to)) = last.pre.to

\* C30: while neither in_mail nor has_authed is set, AUTH PLAIN is checked
\* against the accounts whatever has_tlsd and the port are: the password of
\* an account is answered 235, a wrong one 535.
C30_AuthIgnoresAdvertisement ==
    last.op = "AUTH" /\ ~last.io /\ ~last.pre.in_mail /\ ~last.pre.has_authed =>
        /\ last.line \in {L_AUTH_OK, L_AUTH_ALIAS} => last.out = <<R235>>
        /\ last.line = L_AUTH_WRONG => last.out = <<R535>>

\* 235 on the transfer port, on the plain stream.
C30_Witness ==
    /\ last.op = "AUTH"
    /\ last.line = L_AUTH_OK
    /\ last.out = <<R235>>
    /\ config = TransferPort
    /\ ~config.auth_enabled
    /\ ~mail.has_tlsd
    /\ stream = "Plain"

\* C31: a file is in the mailbox tree only if a body of the connection was
\* ended and answered 250: a connection that ends before DATA, or in the
\* middle of a body, leaves no Inbox and no Sent file.
C31_FileOnlyAfterAcceptedBody ==
    tree.files # <<>> => hist.accepted

\* C32: a filesystem call failing in the delivery of a connection loses that
\* message and nothing more: the listener is back in accept(), and start_smtp
\* does not return on account of it.
C32_DeliveryFailureConfined ==
    last.op = "deliver" /\ last.res = "err" =>
        /\ pc = "accept"
        /\ orch = "exited" => peer = "ended"

\* C33: wherever the loop reads a line, has_tlsd is set exactly when the
\* stream is Tls; no step of a session clears has_tlsd; STARTTLS never takes
\* the unreachable!() arm; and a handshake that fails after has_tlsd was set
\* ends the session, no further line being read.
C33_TlsFlagAgrees ==
    /\ pc = "session" => (mail.has_tlsd <=> stream = "Tls")
    /\ last.op \in LineOps /\ last.pre.has_tlsd => mail.has_tlsd
    /\ ~(last.op = "STARTTLS" /\ last.res = "panic")
    /\ mail.has_tlsd /\ stream = "Plain" =>
          /\ last.op = "STARTTLS"
          /\ last.io
          /\ pc \in {"accept", "aborted"}

\* A handshake that failed: has_tlsd set over the plain stream, and the
\* session over.
C33_Witness ==
    /\ last.op = "STARTTLS"
    /\ last.out = <<R220Tls>>
    /\ last.io
    /\ mail.has_tlsd
    /\ stream = "Plain"
    /\ pc = "accept"

\* C34: a STARTTLS that upgrades the stream changes has_tlsd and nothing
\* else of the Mail, nor what the session has seen and taken as body; the
\* sender and the recipients given before it are those a DATA after it
\* finds.
C34_StarttlsFrame ==
    /\ last.op = "STARTTLS" /\ last.res = "ok" =>
          /\ mail.from = last.pre.from
          /\ mail.to = last.pre.to
          /\ mail.data = last.pre.data
          /\ mail.in_mail = last.pre.in_mail
          /\ mail.has_authed = last.pre.has_authed
          /\ mail.sending_data = last.pre.sending_data
          /\ mail.id = last.pre.id
          /\ hist = last.hist
    /\ last.op = "DATA" /\ ~last.io /\ stream = "Tls" =>
          (last.out = <<R354>> <=> last.pre.from # <<>> /\ last.pre.to # <<>>)

\* The upgrade of a session that had its MAIL and its RCPT on the plain
\* stream.
C34_Witness ==
    /\ last.op = "STARTTLS"
    /\ last.res = "ok"
    /\ ~last.pre.has_tlsd
    /\ stream = "Tls"
    /\ last.pre.in_mail
    /\ mail.from = a_ext
    /\ mail.to = <<a_primary>>

====
